---- MODULE Spec2Model ----
(***************************************************************************)
(* Model of the Flask proxy in src/app.py: the configuration read at       *)
(* import time, the internal auth gate (_check_internal_auth), the         *)
(* /api/generate handler (generate) and the /health handler (health).      *)
(*                                                                         *)
(* Python values are records [t, v]: t is the Python type, v the payload.  *)
(* Strings are sequences of one-character strings, so that slicing,        *)
(* startswith, strip and substring tests are computed, not assumed.        *)
(* A handler is one action; what it did on the way (which get_json calls   *)
(* it made, which upstream call it issued) is recorded in reads and calls. *)
(***************************************************************************)
EXTENDS Integers, Sequences, FiniteSets, TLC

VARIABLES INTERNAL_API_KEY, GOOGLE_API_KEY, pc, request, upstream, auth_err, response, reads, calls

vars == <<INTERNAL_API_KEY, GOOGLE_API_KEY, pc, request, upstream, auth_err, response, reads, calls>>

\* Largest number of whitespace characters put on either side of a string input.
MaxPad == 1

--------------------------------------------------------------------------
\* Python values

PyNone == [t |-> "none", v |-> <<>>]
PyStr(s) == [t |-> "str", v |-> s]
PyNum(n) == [t |-> "num", v |-> n]
PyBool(b) == [t |-> "bool", v |-> b]
PyList(l) == [t |-> "list", v |-> l]
PyDict(d) == [t |-> "dict", v |-> d]

EmptyMap == [k \in {} |-> PyNone]
EmptyDict == PyDict(EmptyMap)

\* bool(x)
Truthy(x) ==
    CASE x.t = "none" -> FALSE
      [] x.t = "str"  -> Len(x.v) > 0
      [] x.t = "num"  -> x.v # 0
      [] x.t = "bool" -> x.v
      [] x.t = "list" -> Len(x.v) > 0
      [] x.t = "dict" -> DOMAIN x.v # {}

\* a or b
PyOr(a, b) == IF Truthy(a) THEN a ELSE b

\* d.get(k) on a dict d
DictGet(d, k) == IF k \in DOMAIN d.v THEN d.v[k] ELSE PyNone

\* x == y for two Python values
PyEq(x, y) == x.t = y.t /\ x.v = y.v

--------------------------------------------------------------------------
\* Strings

Whitespace == {" ", "\t", "\n", "\r"}

RECURSIVE lstrip(_)
lstrip(s) == IF s # <<>> /\ Head(s) \in Whitespace THEN lstrip(Tail(s)) ELSE s

RECURSIVE rstrip(_)
rstrip(s) ==
    IF s # <<>> /\ s[Len(s)] \in Whitespace THEN rstrip(SubSeq(s, 1, Len(s) - 1)) ELSE s

\* s.strip()
strip(s) == rstrip(lstrip(s))

\* s.startswith(p)
startswith(s, p) == Len(s) >= Len(p) /\ SubSeq(s, 1, Len(p)) = p

\* p in s, for two strings
contains(s, p) == \E i \in 0..(Len(s) - Len(p)) : SubSeq(s, i + 1, i + Len(p)) = p

BearerPrefix == <<"B","e","a","r","e","r"," ">>
Random == <<"r","a","n","d","o","m">>
Prompt == <<"p","r","o","m","p","t">>
DefaultModel == <<"g","e","m","i","n","i","-","1",".","5","-","f","l","a","s","h","-","l","a","t","e","s","t">>
DefaultText == <<"W","r","i","t","e"," ","a"," ","s","h","o","r","t",","," ","w","h","i","m","s","i","c","a","l"," ","s","t","o","r","y"," ","s","u","i","t","a","b","l","e"," ","f","o","r"," ","k","i","d","s",".">>

\* The characters of the four recognised parameter names.
KeyChars ==
    [temperature    |-> <<"t","e","m","p","e","r","a","t","u","r","e">>,
     top_p          |-> <<"t","o","p","_","p">>,
     top_k          |-> <<"t","o","p","_","k">>,
     max_new_tokens |-> <<"m","a","x","_","n","e","w","_","t","o","k","e","n","s">>]

--------------------------------------------------------------------------
\* Requests, upstream outcomes and responses

\* What request.get_json(silent=True) returns: the parsed JSON value, or None
\* for an absent body, a malformed body or a non-JSON content type.
get_json(req) == req.body

\* A response: status, the kind of body, the keys of its JSON object and the
\* values the claims read.
MkResponse(status, kind, fields, error, text, raw, api_key_status) ==
    [status |-> status, kind |-> kind, fields |-> fields, error |-> error,
     text |-> text, candidates |-> IF text = <<>> THEN <<>> ELSE <<text>>,
     raw |-> raw, api_key_status |-> api_key_status]

JsonError(status, error) == MkResponse(status, "json", {"error"}, error, <<>>, "", "")

\* Flask's answer to an exception no handler catches: 500 with an HTML page.
InternalServerError == MkResponse(500, "html", {}, "", <<>>, "", "")

NoResponse == MkResponse(0, "", {}, "", <<>>, "", "")

\* What a handler did: its response, the get_json calls it made (in order)
\* and the generate_content calls it issued.
Result(resp, rd, cl) == [response |-> resp, reads |-> rd, calls |-> cl]

NotCalled == [call |-> "not_called", text_attr |-> "missing", text |-> <<>>, to_dict |-> FALSE, msg |-> ""]

\* jsonify({'error': 'Invalid or missing internal API key', 'hint': ...}), 401
Unauthorized ==
    MkResponse(401, "json", {"error", "hint"}, "Invalid or missing internal API key", <<>>, "", "")

--------------------------------------------------------------------------
\* _check_internal_auth(req): ret is "None" (the request may proceed), "401"
\* (the error response) or "raise" (AttributeError from body_json.get on a JSON
\* body that is not an object); read tells whether req.get_json was called.
check_internal_auth(req) ==
    IF ~Truthy(INTERNAL_API_KEY) THEN [ret |-> "None", read |-> FALSE]
    ELSE IF req.method = "OPTIONS" \/ req.path = "/health" THEN [ret |-> "None", read |-> FALSE]
    ELSE
      LET auth_header == IF req.authorization.t = "none" THEN PyStr(<<>>) ELSE req.authorization
          bearer == IF auth_header.t = "str" /\ startswith(auth_header.v, BearerPrefix)
                    THEN PyStr(SubSeq(auth_header.v, 8, Len(auth_header.v)))
                    ELSE PyNone
          x_api_key == IF req.x_api_key.t = "str" THEN req.x_api_key ELSE PyNone
          query_key == IF req.query_api_key.t = "str" THEN req.query_api_key ELSE PyNone
          body_json == PyOr(get_json(req), EmptyDict)
      IN IF body_json.t # "dict" THEN [ret |-> "raise", read |-> TRUE]
         ELSE
           LET body_key == IF DictGet(body_json, "api_key").t = "str"
                           THEN DictGet(body_json, "api_key") ELSE PyNone
               provided == PyOr(PyOr(PyOr(bearer, x_api_key), query_key), body_key)
           IN IF ~Truthy(provided) \/ ~PyEq(provided, INTERNAL_API_KEY)
              THEN [ret |-> "401", read |-> TRUE]
              ELSE [ret |-> "None", read |-> TRUE]

--------------------------------------------------------------------------
\* The parameter mapping of generate (lines 86-98)

ParamKeys == {"temperature", "top_p", "top_k", "max_new_tokens"}

\* k in parameters, for the types on which "in" is defined
HasKey(parameters, k) ==
    CASE parameters.t = "dict" -> k \in DOMAIN parameters.v
      [] parameters.t = "list" ->
           \E i \in 1..Len(parameters.v) : PyEq(parameters.v[i], PyStr(KeyChars[k]))
      [] parameters.t = "str"  -> contains(parameters.v, KeyChars[k])
      [] OTHER -> FALSE

\* Whether lines 88-95 raise TypeError: "in" on a number or a boolean, or
\* parameters['...'] on a list or a string that holds the name.
config_raises(parameters) ==
    \/ parameters.t \in {"num", "bool"}
    \/ parameters.t \in {"list", "str"} /\ \E k \in ParamKeys : HasKey(parameters, k)

\* generation_config[target] = parameters[k], when k is in parameters
copy_key(config, parameters, k, target) ==
    IF parameters.t = "dict" /\ HasKey(parameters, k)
    THEN [j \in DOMAIN config \cup {target} |-> IF j = target THEN parameters.v[k] ELSE config[j]]
    ELSE config

\* Mutant of clean_none: the None values are kept.
clean_none_kept(config) == config

\* {k: v for k, v in generation_config.items() if v is not None}
clean_none(config) == [k \in {j \in DOMAIN config : config[j].t # "none"} |-> config[k]]

generation_config(parameters) ==
    LET c1 == copy_key(EmptyMap, parameters, "temperature", "temperature")
        c2 == copy_key(c1, parameters, "top_p", "top_p")
        c3 == copy_key(c2, parameters, "top_k", "top_k")
        c4 == copy_key(c3, parameters, "max_new_tokens", "max_output_tokens")
    IN clean_none(c4)

--------------------------------------------------------------------------
\* generate (lines 62-122)

\* Lines 100-122: the provider call and the shaping of its result. `up` is what
\* the provider does. genai.GenerativeModel(model_name) tests "/" in model_name
\* and so raises TypeError, inside the try, for a model name that is no string.
\* getattr(resp, 'text', None) supplies None only when the attribute is missing
\* (AttributeError); any other exception of the accessor reaches the except.
call_upstream(model_name, inputs, config, up, rd) ==
    LET call == [model |-> model_name.v, inputs |-> inputs, generation_config |-> config]
    IN IF model_name.t # "str"
       THEN Result(JsonError(500, "argument of type is not iterable"), rd, <<>>)
       ELSE IF up.call = "raises" THEN Result(JsonError(500, up.msg), rd, <<call>>)
       ELSE IF up.text_attr = "raises" THEN Result(JsonError(500, up.msg), rd, <<call>>)
       ELSE
         LET text == IF up.text_attr = "missing" THEN PyNone ELSE PyStr(up.text)
         IN IF ~Truthy(text)
            THEN Result(MkResponse(502, "json", {"error", "raw"}, "Empty response", <<>>,
                                   IF up.to_dict THEN "dict" ELSE "null", ""),
                        rd, <<call>>)
            ELSE Result(MkResponse(200, "json", {"candidates", "text"}, "", text.v, "", ""),
                        rd, <<call>>)

\* Lines 74-98: the body is read and validated; rd holds the earlier reads.
parse_and_call(req, up, rd0) ==
    LET rd == Append(rd0, "generate")
        data == PyOr(get_json(req), EmptyDict)
    IN IF data.t # "dict" THEN Result(InternalServerError, rd, <<>>)
       ELSE
         LET mode_v == PyOr(DictGet(data, "mode"), PyStr(Prompt))
             inputs_v == PyOr(DictGet(data, "inputs"), PyStr(<<>>))
             model_name == PyOr(DictGet(data, "model"), PyStr(DefaultModel))
             parameters == PyOr(DictGet(data, "parameters"), EmptyDict)
         IN IF mode_v.t # "str" \/ inputs_v.t # "str" THEN Result(InternalServerError, rd, <<>>)
            ELSE
              LET mode == strip(mode_v.v)
                  inputs == strip(inputs_v.v)
              IN IF mode # Random /\ inputs = <<>>
                 THEN Result(JsonError(400, "Missing 'inputs' parameter"), rd, <<>>)
                 ELSE IF config_raises(parameters) THEN Result(InternalServerError, rd, <<>>)
                 ELSE call_upstream(model_name,
                                    IF mode = Random /\ inputs = <<>> THEN DefaultText ELSE inputs,
                                    generation_config(parameters), up, rd)

\* Mutant of generate_proxy: the body is read before the provider key is tested.
generate_proxy_reads_first(req, up, rd) ==
    IF ~Truthy(GOOGLE_API_KEY)
    THEN Result(JsonError(500, "GOOGLE_API_KEY is not configured on the server"),
                Append(rd, "generate"), <<>>)
    ELSE parse_and_call(req, up, rd)

\* Lines 71-72, then the rest of the handler.
generate_proxy(req, up, rd) ==
    IF ~Truthy(GOOGLE_API_KEY)
    THEN Result(JsonError(500, "GOOGLE_API_KEY is not configured on the server"), rd, <<>>)
    ELSE parse_and_call(req, up, rd)

\* Lines 66-69 and what follows them; auth is what _check_internal_auth did.
authenticate_and_generate(req, up) ==
    LET auth == check_internal_auth(req)
        rd == IF auth.read THEN <<"auth">> ELSE <<>>
    IN [auth |-> auth.ret,
        result |-> CASE auth.ret = "raise" -> Result(InternalServerError, rd, <<>>)
                     [] auth.ret = "401"   -> Result(Unauthorized, rd, <<>>)
                     [] OTHER              -> generate_proxy(req, up, rd)]

\* Mutant of generate_handler: no early return for OPTIONS.
generate_handler_no_preflight(req, up) == authenticate_and_generate(req, up)

\* The whole handler; auth is "not_run" when it returned before calling
\* _check_internal_auth.
generate_handler(req, up) ==
    IF req.method = "OPTIONS"
    THEN [auth |-> "not_run",
          result |-> Result(MkResponse(204, "empty", {}, "", <<>>, "", ""), <<>>, <<>>)]
    ELSE authenticate_and_generate(req, up)

\* health (lines 50-59)
health_response ==
    MkResponse(200, "json",
               {"status", "timestamp", "service", "llm_integration", "api_key_status", "model"},
               "", <<>>, "", IF Truthy(GOOGLE_API_KEY) THEN "configured" ELSE "not configured")

--------------------------------------------------------------------------
\* The inputs explored

Secret == <<"s","k">>
Wrong == <<"s">>
ProviderKey == <<"g","k">>
Hi == <<"h","i">>
Story == <<"o","k">>

\* A field of a JSON object that is not there.
Absent == [t |-> "absent", v |-> <<>>]

\* The JSON object with the fields of f that are there.
Obj(f) == PyDict([k \in {j \in DOMAIN f : f[j].t # "absent"} |-> f[k]])

Spaces(n) == [i \in 1..n |-> " "]

\* s with up to MaxPad blanks on each side
Padded(s) == {Spaces(l) \o s \o Spaces(r) : l \in 0..MaxPad, r \in 0..MaxPad}

\* os.getenv of a variable: unset, set to the empty string, or set
EnvValues(s) == {PyNone, PyStr(<<>>), PyStr(s)}

AuthHeaders ==
    {PyNone, PyStr(BearerPrefix \o Secret), PyStr(BearerPrefix \o Wrong), PyStr(BearerPrefix),
     PyStr(<<"B","a","s","i","c"," ">> \o Secret), PyStr(Secret)}

KeyValues == {PyNone, PyStr(<<>>), PyStr(Wrong), PyStr(Secret)}

BodyKeyValues == {Absent, PyNone, PyNum(5), PyStr(<<>>), PyStr(Wrong), PyStr(Secret)}

\* JSON bodies that are not objects, and the absent or malformed body (None)
NonObjectBodies ==
    {PyNone, PyList(<<>>), PyList(<<PyNum(1)>>), PyNum(5), PyStr(Secret), PyBool(TRUE)}

CredBodies ==
    NonObjectBodies \cup
    {Obj([api_key |-> k, mode |-> Absent, inputs |-> i, model |-> Absent, parameters |-> Absent]) :
        k \in BodyKeyValues, i \in {Absent, PyStr(Hi)}}

ModeValues ==
    {Absent, PyNone, PyNum(0), PyNum(5), PyStr(<<>>)} \cup
    {PyStr(s) : s \in Padded(Random) \cup Padded(Prompt) \cup Padded(<<"x">>)}

InputValues ==
    {Absent, PyNone, PyNum(0), PyNum(5)} \cup
    {PyStr(s) : s \in Padded(<<>>) \cup Padded(Hi) \cup Padded(<<"a"," ","b">>)}

ModelValues == {Absent, PyStr(<<"m">>), PyNum(5)}

ParamValues == {Absent, PyNone, PyNum(0), PyNum(7)}

AllParamKeys == ParamKeys \cup {"unknown_key"}

ParamDicts == {Obj(f) : f \in [AllParamKeys -> ParamValues]}

FewParameters ==
    {Absent, PyNone, PyNum(5), PyStr(KeyChars.temperature), PyStr(<<"x">>),
     PyList(<<PyStr(KeyChars.top_k)>>), PyList(<<PyNum(1)>>),
     Obj([temperature |-> PyNum(7), top_p |-> PyNone])}

\* Bodies that vary mode, inputs and model, and bodies that vary the type of
\* parameters.
GenBodies ==
    {Obj([api_key |-> Absent, mode |-> m, inputs |-> i, model |-> mo, parameters |-> Absent]) :
        m \in ModeValues, i \in InputValues, mo \in ModelValues} \cup
    {Obj([api_key |-> Absent, mode |-> mi[1], inputs |-> mi[2], model |-> Absent, parameters |-> p]) :
        mi \in {<<Absent, PyStr(Hi)>>, <<PyStr(Random), Absent>>, <<Absent, Absent>>},
        p \in FewParameters}

ParamBodies ==
    {Obj([api_key |-> Absent, mode |-> mi[1], inputs |-> mi[2], model |-> Absent, parameters |-> d]) :
        mi \in {<<Absent, PyStr(Hi)>>, <<PyStr(Random), Absent>>}, d \in ParamDicts}

MkRequest(method, path, authorization, x_api_key, query_api_key, body) ==
    [method |-> method, path |-> path, authorization |-> authorization,
     x_api_key |-> x_api_key, query_api_key |-> query_api_key, body |-> body]

CredRequests ==
    {MkRequest(m, "/api/generate", a, x, q, b) :
        m \in {"POST", "OPTIONS"}, a \in AuthHeaders, x \in KeyValues, q \in KeyValues,
        b \in CredBodies}

BodyRequests ==
    {MkRequest("POST", "/api/generate", PyNone, x, PyNone, b) :
        x \in {PyNone, PyStr(Secret)}, b \in GenBodies \cup ParamBodies}

GenerateRequests == CredRequests \cup BodyRequests

HealthRequests ==
    {MkRequest("GET", "/health", PyNone, x, PyNone, PyNone) : x \in KeyValues}

NoRequest == MkRequest("", "", PyNone, PyNone, PyNone, PyNone)

\* What the provider may do with a call
UpstreamOutcomes ==
    {[call |-> "raises", text_attr |-> "missing", text |-> <<>>, to_dict |-> FALSE, msg |-> "upstream error"],
     [call |-> "returns", text_attr |-> "raises", text |-> <<>>, to_dict |-> TRUE,
      msg |-> "response.text requires a valid Part"]} \cup
    {[call |-> "returns", text_attr |-> "missing", text |-> <<>>, to_dict |-> d, msg |-> ""] :
        d \in BOOLEAN} \cup
    {[call |-> "returns", text_attr |-> "value", text |-> t, to_dict |-> TRUE, msg |-> ""] :
        t \in {<<>>, Story}}

--------------------------------------------------------------------------
\* The state machine

\* Lines 19-20: each key is the first of its two environment variables that is
\* set to a non-empty string.
Init ==
    /\ \E a \in EnvValues(ProviderKey), b \in EnvValues(ProviderKey) : GOOGLE_API_KEY = PyOr(a, b)
    /\ \E a \in EnvValues(Secret), b \in EnvValues(Secret) : INTERNAL_API_KEY = PyOr(a, b)
    /\ pc = "idle"
    /\ request = NoRequest
    /\ upstream = NotCalled
    /\ auth_err = "not_run"
    /\ response = NoResponse
    /\ reads = <<>>
    /\ calls = <<>>

\* POST or OPTIONS /api/generate
generate ==
    /\ pc = "idle"
    /\ \E req \in GenerateRequests, up \in UpstreamOutcomes :
         LET h == generate_handler(req, up)
         IN /\ request' = req
            /\ upstream' = IF h.result.calls # <<>> THEN up ELSE NotCalled
            /\ auth_err' = h.auth
            /\ response' = h.result.response
            /\ reads' = h.result.reads
            /\ calls' = h.result.calls
    /\ pc' = "done"
    /\ UNCHANGED <<INTERNAL_API_KEY, GOOGLE_API_KEY>>

\* GET /health
health ==
    /\ pc = "idle"
    /\ \E req \in HealthRequests : request' = req
    /\ response' = health_response
    /\ pc' = "done"
    /\ UNCHANGED <<INTERNAL_API_KEY, GOOGLE_API_KEY, upstream, auth_err, reads, calls>>

Next == generate \/ health

Spec == Init /\ [][Next]_vars

--------------------------------------------------------------------------
\* The vocabulary of the properties, read off the request itself

Served == pc = "done" /\ request.method = "POST" /\ request.path = "/api/generate"

SecretConfigured == INTERNAL_API_KEY.t = "str" /\ INTERNAL_API_KEY.v # <<>>

ProviderConfigured == GOOGLE_API_KEY.t = "str" /\ GOOGLE_API_KEY.v # <<>>

\* The field k of the request's JSON body; None when the body is no object or
\* has no such field.
Field(req, k) ==
    IF req.body.t = "dict" /\ k \in DOMAIN req.body.v THEN req.body.v[k] ELSE PyNone

Channels == <<"bearer", "x_api_key", "query", "body">>

\* The credential a request carries in a channel; <<>> when it carries none.
Credential(req, ch) ==
    CASE ch = "bearer" ->
           IF req.authorization.t = "str" /\ startswith(req.authorization.v, BearerPrefix)
           THEN SubSeq(req.authorization.v, Len(BearerPrefix) + 1, Len(req.authorization.v))
           ELSE <<>>
      [] ch = "x_api_key" -> IF req.x_api_key.t = "str" THEN req.x_api_key.v ELSE <<>>
      [] ch = "query" -> IF req.query_api_key.t = "str" THEN req.query_api_key.v ELSE <<>>
      [] ch = "body" -> IF Field(req, "api_key").t = "str" THEN Field(req, "api_key").v ELSE <<>>

NoCredential(req) == \A i \in 1..4 : Credential(req, Channels[i]) = <<>>

\* The first non-empty credential in priority order; <<>> when there is none.
Candidate(req) ==
    IF NoCredential(req) THEN <<>>
    ELSE Credential(req, Channels[CHOOSE i \in 1..4 :
                                    /\ Credential(req, Channels[i]) # <<>>
                                    /\ \A j \in 1..(i - 1) : Credential(req, Channels[j]) = <<>>])

\* mode, defaulting to "prompt", trimmed, is "random"
ModeIsRandom(req) == Field(req, "mode").t = "str" /\ strip(Field(req, "mode").v) = Random

\* inputs is empty after trimming
InputsEmpty(req) ==
    \/ Field(req, "inputs").t = "none"
    \/ Field(req, "inputs").t = "str" /\ strip(Field(req, "inputs").v) = <<>>

--------------------------------------------------------------------------
\* Properties

\* C1: with the internal secret configured, a POST /api/generate that carries no
\* credential in any of the four channels is answered 401, whatever else it holds.
C1_NoCredentialIs401 ==
    Served /\ SecretConfigured /\ NoCredential(request) => response.status = 401

\* The request carries the configured secret in channel i and nothing in the others.
OnlyChannel(req, i) ==
    /\ Credential(req, Channels[i]) = INTERNAL_API_KEY.v
    /\ \A j \in (1..4) \ {i} : Credential(req, Channels[j]) = <<>>

\* C2: with the internal secret configured, a POST that carries the correct secret
\* in exactly one channel and nothing in the other three passes the gate: the gate
\* returns no error and the response is not 401.
C2_SingleChannelPasses ==
    Served /\ SecretConfigured =>
        \A i \in 1..4 : OnlyChannel(request, i) => auth_err = "None" /\ response.status # 401

\* C3: OPTIONS /api/generate is answered 204 with an empty body in every
\* configuration, and neither the gate, nor a body read, nor the provider is reached.
C3_OptionsIs204 ==
    pc = "done" /\ request.method = "OPTIONS" =>
        /\ response.status = 204
        /\ response.kind = "empty"
        /\ response.fields = {}
        /\ auth_err = "not_run"
        /\ reads = <<>>
        /\ calls = <<>>

\* An OPTIONS request without any credential was answered 204 while the secret is set.
C3_Witness ==
    /\ pc = "done"
    /\ request.method = "OPTIONS"
    /\ SecretConfigured
    /\ NoCredential(request)
    /\ response.status = 204

\* C4: an authenticated POST with the provider key configured, whose mode is not
\* "random" and whose inputs is empty after trimming, is answered 400 "missing
\* inputs" and the provider is not invoked.
C4_MissingInputsIs400 ==
    Served /\ auth_err = "None" /\ ProviderConfigured
           /\ ~ModeIsRandom(request) /\ InputsEmpty(request) =>
        /\ response.status = 400
        /\ response.error = "Missing 'inputs' parameter"
        /\ calls = <<>>

\* C5: an authenticated POST with the provider key configured and mode "random"
\* invokes the provider with the default text when inputs is empty, and with the
\* client's inputs unchanged when inputs is not empty.
C5_RandomInputs ==
    Served /\ auth_err = "None" /\ ProviderConfigured /\ ModeIsRandom(request) =>
        /\ (Field(request, "inputs").t = "none" \/ Field(request, "inputs") = PyStr(<<>>)) =>
              Len(calls) = 1 /\ calls[1].inputs = DefaultText
        /\ (Field(request, "inputs").t = "str" /\ Field(request, "inputs").v # <<>>) =>
              Len(calls) = 1 /\ calls[1].inputs = Field(request, "inputs").v

\* The name a recognised parameter has in the generation configuration.
Renamed(k) == IF k = "max_new_tokens" THEN "max_output_tokens" ELSE k

\* The recognised parameters a mapping holds with a value other than null.
Given(p) == {k \in ParamKeys \cap DOMAIN p : p[k].t # "none"}

\* The body is an object whose mode, inputs and model are strings, null or
\* absent, and whose parameters is an object.
WellTyped(req) ==
    /\ req.body.t = "dict"
    /\ \A k \in {"mode", "inputs", "model"} : Field(req, k).t \in {"none", "str"}
    /\ Field(req, "parameters").t = "dict"

\* C6: for a parameters mapping, the generation configuration sent upstream holds
\* exactly the recognised keys present with a non-null value, renamed, each with the
\* input's value; unrecognised keys are ignored without error.
C6_GenerationConfig ==
    Served /\ Field(request, "parameters").t = "dict" =>
        /\ calls # <<>> =>
              LET p == Field(request, "parameters").v
                  c == calls[1].generation_config
              IN /\ DOMAIN c = {Renamed(k) : k \in Given(p)}
                 /\ \A k \in Given(p) : c[Renamed(k)] = p[k]
        /\ (/\ auth_err = "None" /\ ProviderConfigured /\ WellTyped(request)
            /\ (ModeIsRandom(request) \/ ~InputsEmpty(request))) => Len(calls) = 1

\* {temperature, max_new_tokens, unknown_key} was mapped to {temperature, max_output_tokens}.
C6_Witness ==
    /\ Served
    /\ Field(request, "parameters").t = "dict"
    /\ DOMAIN Field(request, "parameters").v = {"temperature", "max_new_tokens", "unknown_key"}
    /\ Len(calls) = 1
    /\ DOMAIN calls[1].generation_config = {"temperature", "max_output_tokens"}
    /\ calls[1].generation_config["max_output_tokens"] = PyNum(7)

\* The provider's call returned, with no usable text.
NoUsableText(up) ==
    /\ up.call = "returns"
    /\ up.text_attr \in {"missing", "raises"} \/ up.text = <<>>

\* C7: when the upstream call completes without error but yields no usable text,
\* the answer is 502 "Empty response"; a 200 never carries an empty text.
C7_EmptyUpstreamIs502 ==
    pc = "done" /\ calls # <<>> =>
        /\ NoUsableText(upstream) =>
              response.status = 502 /\ response.error = "Empty response"
        /\ response.status = 200 => response.text # <<>>

\* C8: every error answer of POST /api/generate is a JSON object with a
\* human-readable error field, for every request body.
C8_ErrorsAreJson ==
    Served /\ response.status >= 400 =>
        /\ response.kind = "json"
        /\ "error" \in response.fields
        /\ response.error # ""

NotConfigured == JsonError(500, "GOOGLE_API_KEY is not configured on the server")

\* C9 as stated: without the provider key, a POST fails with the 500 "not
\* configured" error, no body read before it and no provider call.
C9_AsStated ==
    Served /\ ~ProviderConfigured =>
        response = NotConfigured /\ reads = <<>> /\ calls = <<>>

\* C9, amended: without the provider key, the provider is never invoked and the
\* handler's own body read (line 74) never happens; a request the gate lets
\* through is answered 500 "not configured"; and when no internal secret is
\* configured the body is not read at all.
C9_NotConfigured ==
    Served /\ ~ProviderConfigured =>
        /\ calls = <<>>
        /\ \A i \in DOMAIN reads : reads[i] # "generate"
        /\ auth_err = "None" => response = NotConfigured
        /\ ~SecretConfigured => response = NotConfigured /\ reads = <<>>

\* Without the provider key, a request whose secret came in the body passed the
\* gate, which read the body, and was answered 500 "not configured".
C9_Witness ==
    /\ Served
    /\ ~ProviderConfigured
    /\ SecretConfigured
    /\ OnlyChannel(request, 4)
    /\ reads = <<"auth">>
    /\ response = NotConfigured

\* C10: with the internal secret configured, the gate passes exactly when the first
\* non-empty credential in priority order exists and equals the secret, and answers
\* 401 otherwise.
C10_FirstCandidateDecides ==
    Served /\ SecretConfigured =>
        /\ auth_err = "None" <=> Candidate(request) = INTERNAL_API_KEY.v
        /\ auth_err # "None" => response.status = 401

--------------------------------------------------------------------------
\* What holds of the requests on which no handler raises

\* A field that is a string, null or absent.
Usable(x) == x.t \in {"none", "str"}

\* get_json(...) or {} is a dict.
BodyUsable(req) == req.body.t = "dict" \/ ~Truthy(req.body)

\* On such bodies the gate passes exactly when the first non-empty credential is
\* the secret, and answers 401 otherwise.
GateOnUsableBodies ==
    Served /\ SecretConfigured /\ BodyUsable(request) =>
        /\ auth_err = "None" <=> Candidate(request) = INTERNAL_API_KEY.v
        /\ auth_err # "None" => response = Unauthorized

\* On such bodies, with string mode and inputs, validation and the choice of the
\* text sent upstream follow the trimmed values.
ValidationOnUsableBodies ==
    (/\ Served /\ auth_err = "None" /\ ProviderConfigured /\ BodyUsable(request)
     /\ Usable(Field(request, "mode")) /\ Usable(Field(request, "inputs"))) =>
        IF ~ModeIsRandom(request) /\ InputsEmpty(request)
        THEN response = JsonError(400, "Missing 'inputs' parameter") /\ calls = <<>>
        ELSE \A i \in DOMAIN calls :
                calls[i].inputs = IF InputsEmpty(request) THEN DefaultText
                                  ELSE strip(Field(request, "inputs").v)

\* A response without the text attribute, or with an empty text, is answered 502.
EmptyTextIs502 ==
    (/\ pc = "done" /\ calls # <<>> /\ upstream.call = "returns"
     /\ upstream.text_attr = "missing" \/ (upstream.text_attr = "value" /\ upstream.text = <<>>)) =>
        response.status = 502 /\ response.error = "Empty response"

====
